---- MODULE Spec2Model ----
(***************************************************************************)
(* Model of src/app.py: a Flask application that keeps GitHub events in a  *)
(* module-level list (events_store) guarded by a lock (store_lock).        *)
(* Request threads run the handlers dashboard, fetch_events,               *)
(* github_webhook, clear_events and status concurrently.                   *)
(*                                                                         *)
(* Time is counted in clock ticks.  TicksPerSecond ticks make one second,  *)
(* the resolution that parse_github_time keeps ([:19] drops the fraction). *)
(* One tick is also the resolution of the webhook id (a millisecond in the *)
(* source).  The 24 hour horizon and the capacity of 100 are scaled down   *)
(* to HorizonSeconds and MAX_CAPACITY so that the window and the capacity  *)
(* cut are both reached.                                                   *)
(***************************************************************************)
EXTENDS Integers, Sequences, FiniteSets, TLC

\* ---------------------------------------------------------------- bounds
\* The clock runs from 0 to MaxTime ticks.
MaxTime == 3
\* Clock ticks per second: the part of a timestamp that [:19] cuts off.
TicksPerSecond == 2
\* timedelta(hours=24), in seconds of the model (86400 in the source).
HorizonSeconds == 1
\* The slice bound [:100] of the source, scaled down.
MAX_CAPACITY == 2
\* Longest batch the upstream feed returns.
MaxBatch == 2
\* Requests served in one run with two threads, and with one thread.
MaxRequests == 2
MaxSeqRequests == 2

Horizon == HorizonSeconds * TicksPerSecond

Threads == {"t1", "t2"}
SeqThreads == {"t1"}
Free == "free"

\* ------------------------------------------------------- values and inputs
\* A 'created_at' value: an ISO string naming the instant t, JSON null (or
\* the empty string), a string fromisoformat rejects, or an absent key.
Iso(t) == <<"iso", t>>
NullTime == <<"null", 0>>
BadTime == <<"bad", 0>>
AbsentTime == <<"absent", 0>>

\* Event ids.  NoId stands for an absent or falsy 'id'.
NoId == <<"none", 0>>
ApiId(n) == <<"api", n>>

RawRecord(id, has_type, created_at) ==
    [id |-> id, has_type |-> has_type, created_at |-> created_at]

\* The feed holds two events, one second apart; it stamps whole seconds.
FirstEvent == RawRecord(ApiId(1), TRUE, Iso(0))
SecondEvent == RawRecord(ApiId(2), TRUE, Iso(TicksPerSecond))

\* Records with 'id' and 'type' whose 'created_at' parses or is null.
GoodRecords ==
    {FirstEvent, SecondEvent,
     RawRecord(ApiId(1), TRUE, NullTime), RawRecord(ApiId(2), TRUE, NullTime)}

\* One record for each defect the loop of fetch_events can meet: no 'id', a
\* 'created_at' that does not parse, no 'created_at', no 'type'.
DefectRecords ==
    {RawRecord(NoId, TRUE, Iso(TicksPerSecond)),
     RawRecord(ApiId(1), TRUE, BadTime),
     RawRecord(ApiId(1), TRUE, AbsentTime),
     RawRecord(ApiId(1), FALSE, Iso(TicksPerSecond))}

RawRecords == GoodRecords \cup DefectRecords

\* The two events of the feed and a record whose 'created_at' does not parse.
PlainRecords == {FirstEvent, SecondEvent, RawRecord(ApiId(1), TRUE, BadTime)}

\* The two events of the feed and a record without 'created_at'.
RepollRecords == {FirstEvent, SecondEvent, RawRecord(ApiId(1), TRUE, AbsentTime)}

RECURSIVE SeqsUpTo(_, _)
SeqsUpTo(S, n) ==
    IF n = 0 THEN {<<>>}
    ELSE LET shorter == SeqsUpTo(S, n - 1)
         IN shorter \cup {Append(s, x) : s \in {q \in shorter : Len(q) = n - 1}, x \in S}

Batches == SeqsUpTo(RawRecords, MaxBatch)
PlainBatches == SeqsUpTo(PlainRecords, 1) \cup {<<FirstEvent, SecondEvent>>}
RepollBatches == SeqsUpTo(RepollRecords, MaxBatch)
\* The feed as it is, and a batch whose record does not parse.
FairBatches == {<<FirstEvent, SecondEvent>>, <<RawRecord(ApiId(1), TRUE, BadTime)>>}

\* A field of the JSON body of a webhook delivery: absent, a string, null,
\* or a mapping, of which only the one key the handler reads is kept ("" when
\* the mapping lacks it).
Absent == <<"absent", "">>
Null == <<"null", "">>
Str(s) == <<"str", s>>
Map(s) == <<"map", s>>

Payload(action, sender, repository) ==
    [action |-> action, sender |-> sender, repository |-> repository]

\* request.get_json() or {} for an empty body or the empty mapping.
EmptyPayload == Payload(Absent, Absent, Absent)

\* The bodies delivered: the empty one, one whose 'sender' and 'repository'
\* are mappings without the key read, one whose 'sender' is a string and one
\* whose 'repository' is null.
Payloads ==
    {EmptyPayload,
     Payload(Absent, Map(""), Map("")),
     Payload(Absent, Str("octocat"), Absent),
     Payload(Absent, Absent, Null)}

\* ------------------------------------------------------- pure functions
\* Mutant: a string that is no ISO timestamp is let through.
ParseNeverRaises(iso_string) == FALSE

\* fromisoformat raises ValueError on a string that is no ISO timestamp.
ParseRaises(iso_string) == iso_string[1] = "bad"

\* parse_github_time: utcnow() for a missing or empty value, else the
\* timestamp cut to whole seconds; the time zone suffix is dropped.
parse_github_time(iso_string, clock) ==
    IF iso_string[1] \in {"null", "absent"}
    THEN clock
    ELSE (iso_string[2] \div TicksPerSecond) * TicksPerSecond

\* The sort key lambda x: parse_github_time(x.get('created_at')).
SortKey(e, clock) == parse_github_time(e.created_at, clock)

\* Place e behind every element whose key is at most its own.
RECURSIVE InsertAsc(_, _, _)
InsertAsc(sorted, e, clock) ==
    IF sorted = <<>> THEN <<e>>
    ELSE IF SortKey(Head(sorted), clock) <= SortKey(e, clock)
         THEN <<Head(sorted)>> \o InsertAsc(Tail(sorted), e, clock)
         ELSE <<e>> \o sorted

\* Mutant: the sort without reverse=True.
RECURSIVE SortedOldestFirst(_, _)
SortedOldestFirst(store, clock) ==
    IF store = <<>> THEN <<>>
    ELSE InsertAsc(SortedOldestFirst(SubSeq(store, 1, Len(store) - 1), clock),
                   store[Len(store)], clock)

\* The positions sorted(..., reverse=True) puts ahead of position i: those
\* with a later key, and those with the same key that came earlier.
Ahead(store, clock, i) ==
    {j \in 1..Len(store) :
        \/ SortKey(store[j], clock) > SortKey(store[i], clock)
        \/ SortKey(store[j], clock) = SortKey(store[i], clock) /\ j < i}

\* sorted(events_store, key=..., reverse=True): descending and stable.
SortedNewestFirst(store, clock) ==
    [p \in 1..Len(store) |->
        store[CHOOSE i \in 1..Len(store) : Cardinality(Ahead(store, clock, i)) = p - 1]]

\* Mutant: the window test with >= for >.
InWindowInclusive(e, cut_off, clock) == parse_github_time(e.created_at, clock) >= cut_off

\* The window test of the dashboard.
InWindow(e, cut_off, clock) == parse_github_time(e.created_at, clock) > cut_off

RECURSIVE SelectSeq2(_, _, _)
SelectSeq2(store, cut_off, clock) ==
    IF store = <<>> THEN <<>>
    ELSE (IF InWindow(Head(store), cut_off, clock) THEN <<Head(store)>> ELSE <<>>)
         \o SelectSeq2(Tail(store), cut_off, clock)

\* [e for e in events_store if parse_github_time(e.get('created_at')) > cutoff]
RecentEvents(store, cut_off, clock) == SelectSeq2(store, cut_off, clock)

\* Mutant: the slice keeps one event too many.
KeepCapacityPlusOne(s) ==
    SubSeq(s, 1, IF Len(s) < MAX_CAPACITY + 1 THEN Len(s) ELSE MAX_CAPACITY + 1)

\* The slice [:100].
KeepCapacity(s) ==
    SubSeq(s, 1, IF Len(s) < MAX_CAPACITY THEN Len(s) ELSE MAX_CAPACITY)

\* Mutant: the truncation also drops what has left the 24 hour window.
SortAndTruncateWindow(store, clock) ==
    KeepCapacity(SortedNewestFirst(RecentEvents(store, clock - Horizon, clock), clock))

\* events_store[:] = sorted(...)[:100]
SortAndTruncate(store, clock) == KeepCapacity(SortedNewestFirst(store, clock))

\* {e.get('id') for e in events_store}
IdsOf(store) == {store[i].id : i \in 1..Len(store)}

\* Mutant: the admission test without the look-up in existing_ids.
AdmissibleNoDedup(event_id, event_time, ids, cut_off) ==
    /\ event_id # NoId
    /\ event_time > cut_off

\* Mutant: the admission test without the test of event_id.
AdmissibleAnyId(event_id, event_time, ids, cut_off) ==
    /\ event_id \notin ids
    /\ event_time > cut_off

\* The admission test of the poll loop.
Admissible(event_id, event_time, ids, cut_off) ==
    /\ event_id # NoId
    /\ event_id \notin ids
    /\ event_time > cut_off

\* display_event, reduced to the fields the handlers read back.
DisplayEvent(r) == [id |-> r.id, created_at |-> r.created_at, source |-> "github_api"]

\* Building display_event raises KeyError on event['type'], event['created_at'].
BuildRaises(r) == ~r.has_type \/ r.created_at = AbsentTime

\* f"webhook_{int(time.time()*1000)}": one id per clock tick.
WebhookId(clock) == <<"webhook", clock>>

\* data.get(key, default) of a field that holds a string or is absent.
GetOr(field, default) == IF field = Absent THEN default ELSE field[2]

\* data.get(key, {}).get(inner, default): the default for an absent key or a
\* mapping without the inner key.
GetIn(field, default) ==
    IF field = Absent \/ field[2] = "" THEN default ELSE field[2]

\* data.get(key, {}).get(...) raises AttributeError when the value under the
\* key is there and is no mapping.
GetInRaises(field) == field # Absent /\ field[1] # "map"

\* Lines 100 and 104 raise on a 'sender' or 'repository' that is no mapping.
WebhookRaises(data) == GetInRaises(data.sender) \/ GetInRaises(data.repository)

\* webhook_event: created_at is utcnow().isoformat() + 'Z'.
WebhookEvent(clock, data) ==
    [id |-> WebhookId(clock),
     type |-> GetOr(data.action, "webhook_event"),
     actor |-> GetIn(data.sender, "github-webhook"),
     created_at |-> Iso(clock),
     repo |-> GetIn(data.repository, "webhook"),
     source |-> "github_webhook"]

\* ------------------------------------------------------------------ state
VARIABLES
    now,            \* the clock read by utcnow() and time.time(), in ticks
    events_store,   \* the module-level list of stored events
    store_lock,     \* the thread inside "with store_lock", or Free
    pc,             \* where each request thread stands in its handler
    api_events,     \* fetch_events: the batch decoded from the response
    idx,            \* fetch_events: position of the loop in api_events
    cutoff,         \* fetch_events, dashboard: utcnow() - 24 hours
    existing_ids,   \* fetch_events: the ids read before the loop
    fresh_events,   \* fetch_events: the events admitted by this cycle
    webhook_event,  \* github_webhook: the event built from the payload
    response,       \* what the handler returned to its caller
    served,         \* the number of requests taken so far
    cut,            \* history: what the last truncation of the thread did
    prev            \* history: the poll cycle completed last, while nothing
                    \* but a poll of the same batch has followed it

vars == <<now, events_store, store_lock, pc, api_events, idx, cutoff,
          existing_ids, fresh_events, webhook_event, response, served, cut, prev>>

NoEvent == [id |-> NoId, created_at |-> NullTime, source |-> "none"]
NoCut == [before |-> <<>>, after |-> <<>>, at |-> 0, inserted |-> NoEvent,
          lost |-> FALSE]
NoPrev == [batch |-> <<>>, fresh |-> <<>>, total |-> 0, code |-> 0, store |-> <<>>,
           lost |-> FALSE]

Resp(kind, code, new_events, total_events, events, seen, at) ==
    [kind |-> kind, code |-> code, new_events |-> new_events,
     total_events |-> total_events, events |-> events, seen |-> seen, at |-> at]
NoResp == Resp("none", 0, 0, 0, <<>>, <<>>, 0)

Init ==
    /\ now = 0
    /\ events_store = <<>>
    /\ store_lock = Free
    /\ pc = [t \in Threads |-> "idle"]
    /\ api_events = [t \in Threads |-> <<>>]
    /\ idx = [t \in Threads |-> 0]
    /\ cutoff = [t \in Threads |-> 0]
    /\ existing_ids = [t \in Threads |-> {}]
    /\ fresh_events = [t \in Threads |-> <<>>]
    /\ webhook_event = [t \in Threads |-> NoEvent]
    /\ response = [t \in Threads |-> NoResp]
    /\ served = 0
    /\ cut = [t \in Threads |-> NoCut]
    /\ prev = NoPrev

\* History of the last admission of a request: the store with the event
\* inserted, the store the truncation left, the clock of the sort, the
\* event, and whether an admission of the request has dropped an event.
CutOf(store, after, clock, e, lost) ==
    [before |-> store, after |-> after, at |-> clock, inserted |-> e,
     lost |-> lost \/ Len(after) < Len(store)]

\* The handler of thread t returns r.
Respond(t, r) ==
    /\ pc' = [pc EXCEPT ![t] = "done"]
    /\ response' = [response EXCEPT ![t] = r]

\* ---------------------------------------------------------------- actions
\* The clock advances.
Tick ==
    /\ now < MaxTime
    /\ now' = now + 1
    /\ UNCHANGED <<served, events_store, store_lock, pc, api_events, idx, cutoff,
                   existing_ids, fresh_events, webhook_event, response, cut, prev>>

\* A request arrives at thread t, which is idle.
NewRequest(t) ==
    /\ pc[t] = "idle"
    /\ served' = served + 1
    /\ UNCHANGED <<api_events, idx, existing_ids, fresh_events, cut>>

\* dashboard, line 26: the cutoff is read before the lock is taken.
DashStart(t) ==
    /\ NewRequest(t)
    /\ pc' = [pc EXCEPT ![t] = "dash"]
    /\ cutoff' = [cutoff EXCEPT ![t] = now - Horizon]
    /\ prev' = NoPrev
    /\ UNCHANGED <<now, events_store, store_lock, webhook_event, response>>

\* dashboard, lines 28-32: filter the store under the lock and render.
DashRead(t) ==
    /\ pc[t] = "dash"
    /\ store_lock = Free
    /\ Respond(t, Resp("dashboard", 200, 0, 0,
                       RecentEvents(events_store, cutoff[t], now), events_store, now))
    /\ UNCHANGED <<served, now, events_store, store_lock, api_events, idx, cutoff,
                   existing_ids, fresh_events, webhook_event, cut, prev>>

\* fetch_events, lines 37-40: a repo without '/' is refused.
PollBadRepo(t) ==
    /\ NewRequest(t)
    /\ Respond(t, Resp("poll", 400, 0, 0, <<>>, <<>>, 0))
    /\ prev' = NoPrev
    /\ UNCHANGED <<now, events_store, store_lock, cutoff, webhook_event>>

\* Mutant: the fetch is made inside "with store_lock".
PollStartLocked(t) ==
    /\ NewRequest(t)
    /\ store_lock = Free
    /\ store_lock' = t
    /\ pc' = [pc EXCEPT ![t] = "fetch"]
    /\ UNCHANGED <<now, events_store, cutoff, webhook_event, response, prev>>

\* fetch_events, line 45: requests.get is under way.
PollStart(t) ==
    /\ NewRequest(t)
    /\ pc' = [pc EXCEPT ![t] = "fetch"]
    /\ UNCHANGED <<now, events_store, store_lock, cutoff, webhook_event, response, prev>>

\* Mutant: the failure of the fetch is also put into the store, as an event.
FetchFailStored(t) ==
    /\ pc[t] = "fetch"
    /\ store_lock = Free
    /\ events_store' = SortAndTruncate(Append(events_store, DisplayEvent(FirstEvent)), now)
    /\ Respond(t, Resp("poll", 500, 0, 0, <<>>, <<>>, 0))
    /\ prev' = NoPrev
    /\ UNCHANGED <<served, now, store_lock, api_events, idx, cutoff,
                   existing_ids, fresh_events, webhook_event, cut>>

\* fetch_events, lines 45-46 and 87-88: the fetch fails.
FetchFail(t) ==
    /\ pc[t] = "fetch"
    /\ Respond(t, Resp("poll", 500, 0, 0, <<>>, <<>>, 0))
    /\ prev' = NoPrev
    /\ UNCHANGED <<served, now, events_store, store_lock, api_events, idx, cutoff,
                   existing_ids, fresh_events, webhook_event, cut>>

\* fetch_events, lines 47-52: the batch arrives; cutoff and the ids of the
\* store are read, without the lock.
FetchOK(t, feed) ==
    /\ pc[t] = "fetch"
    /\ \E b \in feed : api_events' = [api_events EXCEPT ![t] = b]
    /\ cutoff' = [cutoff EXCEPT ![t] = now - Horizon]
    /\ existing_ids' = [existing_ids EXCEPT ![t] = IdsOf(events_store)]
    /\ fresh_events' = [fresh_events EXCEPT ![t] = <<>>]
    /\ idx' = [idx EXCEPT ![t] = 1]
    /\ pc' = [pc EXCEPT ![t] = "loop"]
    /\ prev' = IF api_events'[t] = prev.batch THEN prev ELSE NoPrev
    /\ UNCHANGED <<served, now, events_store, store_lock, webhook_event, response, cut>>

InLoop(t) == pc[t] = "loop" /\ idx[t] <= Len(api_events[t])
Record(t) == api_events[t][idx[t]]
Admits(t) ==
    Admissible(Record(t).id, parse_github_time(Record(t).created_at, now),
               existing_ids[t], cutoff[t])

\* fetch_events, lines 56, 62, 64 and 89-90: an exception leaves the loop.
PollAbort(t) ==
    /\ InLoop(t)
    /\ \/ ParseRaises(Record(t).created_at)
       \/ Admits(t) /\ BuildRaises(Record(t))
    /\ Respond(t, Resp("poll", 500, 0, 0, <<>>, <<>>, 0))
    /\ UNCHANGED <<served, now, events_store, store_lock, api_events, idx, cutoff,
                   existing_ids, fresh_events, webhook_event, cut, prev>>

\* fetch_events, line 58: the record fails the admission test.
PollSkip(t) ==
    /\ InLoop(t)
    /\ ~ParseRaises(Record(t).created_at)
    /\ ~Admits(t)
    /\ idx' = [idx EXCEPT ![t] = idx[t] + 1]
    /\ UNCHANGED <<served, now, events_store, store_lock, pc, api_events, cutoff,
                   existing_ids, fresh_events, webhook_event, response, cut, prev>>

\* fetch_events, lines 58-72: the record passes; take the lock and append.
PollAppend(t) ==
    /\ InLoop(t)
    /\ ~ParseRaises(Record(t).created_at)
    /\ Admits(t)
    /\ ~BuildRaises(Record(t))
    /\ store_lock = Free
    /\ store_lock' = t
    /\ events_store' = Append(events_store, DisplayEvent(Record(t)))
    /\ pc' = [pc EXCEPT ![t] = "locked"]
    /\ UNCHANGED <<served, now, api_events, idx, cutoff, existing_ids, fresh_events,
                   webhook_event, response, cut, prev>>

\* Mutant: the lock is not released after the sort and slice.
PollSortTruncateHolds(t) ==
    /\ pc[t] = "locked"
    /\ events_store' = SortAndTruncate(events_store, now)
    /\ fresh_events' = [fresh_events EXCEPT ![t] = Append(@, DisplayEvent(Record(t)))]
    /\ existing_ids' = [existing_ids EXCEPT ![t] = @ \cup {Record(t).id}]
    /\ idx' = [idx EXCEPT ![t] = idx[t] + 1]
    /\ pc' = [pc EXCEPT ![t] = "loop"]
    /\ cut' = [cut EXCEPT ![t] = CutOf(events_store, events_store', now,
                                       DisplayEvent(Record(t)), cut[t].lost)]
    /\ UNCHANGED <<served, now, store_lock, api_events, cutoff, webhook_event,
                   response, prev>>

\* fetch_events, lines 74-77: sort, truncate, release; note the admission.
PollSortTruncate(t) ==
    /\ pc[t] = "locked"
    /\ events_store' = SortAndTruncate(events_store, now)
    /\ store_lock' = Free
    /\ fresh_events' = [fresh_events EXCEPT ![t] = Append(@, DisplayEvent(Record(t)))]
    /\ existing_ids' = [existing_ids EXCEPT ![t] = @ \cup {Record(t).id}]
    /\ idx' = [idx EXCEPT ![t] = idx[t] + 1]
    /\ pc' = [pc EXCEPT ![t] = "loop"]
    /\ cut' = [cut EXCEPT ![t] = CutOf(events_store, events_store', now,
                                       DisplayEvent(Record(t)), cut[t].lost)]
    /\ UNCHANGED <<served, now, api_events, cutoff, webhook_event, response, prev>>

\* fetch_events, lines 79-85: the summary; len(events_store) is read unlocked.
PollRespond(t) ==
    /\ pc[t] = "loop"
    /\ idx[t] > Len(api_events[t])
    /\ Respond(t, Resp("poll", 200, Len(fresh_events[t]), Len(events_store),
                       <<>>, <<>>, 0))
    /\ UNCHANGED <<served, now, events_store, store_lock, api_events, idx, cutoff,
                   existing_ids, fresh_events, webhook_event, cut, prev>>

\* github_webhook, lines 96-106 and 115-117: building the event raises and
\* the delivery is refused.
WebhookRefuse(t) ==
    /\ NewRequest(t)
    /\ \E data \in Payloads : WebhookRaises(data)
    /\ Respond(t, Resp("webhook", 400, 0, 0, <<>>, <<>>, 0))
    /\ prev' = NoPrev
    /\ UNCHANGED <<now, events_store, store_lock, cutoff, webhook_event>>

\* github_webhook, lines 96-106: the event is built from the body and the
\* clock.
WebhookBuild(t) ==
    /\ NewRequest(t)
    /\ \E data \in Payloads :
           /\ ~WebhookRaises(data)
           /\ webhook_event' = [webhook_event EXCEPT ![t] = WebhookEvent(now, data)]
    /\ pc' = [pc EXCEPT ![t] = "wh_built"]
    /\ prev' = NoPrev
    /\ UNCHANGED <<now, events_store, store_lock, cutoff, response>>

\* Mutant: the event is appended, not inserted at the front.
WebhookAppend(t) ==
    /\ pc[t] = "wh_built"
    /\ store_lock = Free
    /\ store_lock' = t
    /\ events_store' = Append(events_store, webhook_event[t])
    /\ pc' = [pc EXCEPT ![t] = "wh_locked"]
    /\ UNCHANGED <<served, now, api_events, idx, cutoff, existing_ids, fresh_events,
                   webhook_event, response, cut, prev>>

\* github_webhook, lines 108-109: take the lock and insert at the front.
WebhookInsert(t) ==
    /\ pc[t] = "wh_built"
    /\ store_lock = Free
    /\ store_lock' = t
    /\ events_store' = <<webhook_event[t]>> \o events_store
    /\ pc' = [pc EXCEPT ![t] = "wh_locked"]
    /\ UNCHANGED <<served, now, api_events, idx, cutoff, existing_ids, fresh_events,
                   webhook_event, response, cut, prev>>

\* github_webhook, lines 110-113: sort, truncate, release and acknowledge.
WebhookSortTruncate(t) ==
    /\ pc[t] = "wh_locked"
    /\ events_store' = SortAndTruncate(events_store, now)
    /\ store_lock' = Free
    /\ cut' = [cut EXCEPT ![t] = CutOf(events_store, events_store', now,
                                       webhook_event[t], FALSE)]
    /\ Respond(t, Resp("webhook", 200, 0, 0, <<>>, <<>>, 0))
    /\ UNCHANGED <<served, now, api_events, idx, cutoff, existing_ids, fresh_events,
                   webhook_event, prev>>

\* clear_events, lines 120-122: the request is about to enter the lock.
ClearStart(t) ==
    /\ NewRequest(t)
    /\ pc' = [pc EXCEPT ![t] = "clear"]
    /\ prev' = NoPrev
    /\ UNCHANGED <<now, events_store, store_lock, cutoff, webhook_event, response>>

\* clear_events, lines 122-124: empty the store under the lock.
Clear(t) ==
    /\ pc[t] = "clear"
    /\ store_lock = Free
    /\ events_store' = <<>>
    /\ Respond(t, Resp("clear", 200, 0, 0, <<>>, <<>>, 0))
    /\ UNCHANGED <<served, now, store_lock, api_events, idx, cutoff, existing_ids,
                   fresh_events, webhook_event, cut, prev>>

\* status, lines 129-133: len(events_store) is read without the lock.
Status(t) ==
    /\ NewRequest(t)
    /\ Respond(t, Resp("status", 200, 0, Len(events_store), <<>>, <<>>, 0))
    /\ prev' = NoPrev
    /\ UNCHANGED <<now, events_store, store_lock, cutoff, webhook_event>>

\* A poll cycle that worked through a batch, as the history keeps it.
Finished(t) ==
    [batch |-> api_events[t], fresh |-> fresh_events[t],
     total |-> response[t].total_events, code |-> response[t].code,
     store |-> events_store, lost |-> cut[t].lost]

\* The response has gone out and the locals of the handler are gone; the
\* thread waits for the next request.  With remember set, a poll cycle that
\* got a batch is kept in the history.
Return(t, remember) ==
    /\ pc[t] = "done"
    /\ pc' = [pc EXCEPT ![t] = "idle"]
    /\ response' = [response EXCEPT ![t] = NoResp]
    /\ api_events' = [api_events EXCEPT ![t] = <<>>]
    /\ idx' = [idx EXCEPT ![t] = 0]
    /\ cutoff' = [cutoff EXCEPT ![t] = 0]
    /\ existing_ids' = [existing_ids EXCEPT ![t] = {}]
    /\ fresh_events' = [fresh_events EXCEPT ![t] = <<>>]
    /\ webhook_event' = [webhook_event EXCEPT ![t] = NoEvent]
    /\ cut' = [cut EXCEPT ![t] = NoCut]
    /\ prev' = IF remember /\ response[t].kind = "poll" /\ idx[t] > 0
               THEN Finished(t) ELSE prev
    /\ UNCHANGED <<now, events_store, store_lock, served>>

\* A request arrives and thread t enters its handler.
Accept(t) ==
    \/ DashStart(t) \/ PollBadRepo(t) \/ PollStart(t)
    \/ WebhookRefuse(t) \/ WebhookBuild(t) \/ ClearStart(t) \/ Status(t)

\* The next step of the handler thread t is in.
Proceed(t, feed) ==
    \/ DashRead(t)
    \/ FetchFail(t) \/ FetchOK(t, feed)
    \/ PollAbort(t) \/ PollSkip(t) \/ PollAppend(t) \/ PollSortTruncate(t)
    \/ PollRespond(t)
    \/ WebhookInsert(t) \/ WebhookSortTruncate(t)
    \/ Clear(t)

\* One step of the handler that thread t runs; budget caps the requests.
Handler(t, feed, remember, budget) ==
    \/ served < budget /\ Accept(t)
    \/ Return(t, remember)
    \/ Proceed(t, feed)

\* Two request threads, fed well-formed records.
Next == Tick \/ \E t \in Threads : Handler(t, PlainBatches, FALSE, MaxRequests)
Spec == Init /\ [][Next]_vars

\* Two request threads under fair scheduling, one request for each thread:
\* a thread inside a handler whose next step stays possible takes it, and
\* requests.get returns or times out (timeout=15).  Requests arrive, and the
\* clock advances, as they please.
NextFair ==
    Tick \/ \E t \in Threads : Handler(t, FairBatches, FALSE, Cardinality(Threads))
SpecFair ==
    Init /\ [][NextFair]_vars /\ \A t \in Threads : WF_vars(Proceed(t, FairBatches))

\* One request thread, fed every shape of record.
NextSeq == Tick \/ \E t \in SeqThreads : Handler(t, Batches, FALSE, MaxSeqRequests)
SpecSeq == Init /\ [][NextSeq]_vars

\* One request thread that remembers the poll cycle it completed last and
\* serves one request more.
NextRepoll == Tick \/ \E t \in SeqThreads : Handler(t, RepollBatches, TRUE, MaxSeqRequests + 1)
SpecRepoll == Init /\ [][NextRepoll]_vars

\* ------------------------------------------------------------------ claims
Positions == 1..Len(events_store)
LockFree == store_lock = Free

\* C1: in every reachable state no two events in events_store have the same
\* 'id', whatever the interleaving of poll cycles, webhook deliveries and
\* clears.
C1_UniqueIds ==
    \A i, j \in Positions : i # j => events_store[i].id # events_store[j].id

\* Occurrences of e in the sequence s.
Count(s, e) == Cardinality({i \in 1..Len(s) : s[i] = e})
Range(s) == {s[i] : i \in 1..Len(s)}
\* The threads whose request has made an admission.
Admitted == {t \in Threads : cut[t] # NoCut}
\* The events the truncation of thread t removed.
Evicted(t) == {e \in Range(cut[t].before) : Count(cut[t].after, e) < Count(cut[t].before, e)}

\* C2: whenever store_lock is not held, events_store holds at most
\* MAX_CAPACITY events, and so does the store each admission leaves.
C2_CapacityBound ==
    /\ LockFree => Len(events_store) <= MAX_CAPACITY
    /\ \A t \in Admitted : Len(cut[t].after) <= MAX_CAPACITY

\* An admission found the store full and the lock is free again.
C2_Witness ==
    /\ LockFree
    /\ Len(events_store) = MAX_CAPACITY
    /\ \E t \in Admitted : Len(cut[t].before) > MAX_CAPACITY

C4_DuplicateIsNoOp ==
    \A t \in Admitted :
        Cardinality({i \in 1..Len(cut[t].before) :
                        cut[t].before[i].id = cut[t].inserted.id}) = 1

\* The dashboard reads that have returned.
Dashboards == {t \in Threads : response[t].kind = "dashboard"}
\* occurred_at of a stored event as a read at the given clock computes it.
OccurredAt(e, clock) == parse_github_time(e.created_at, clock)
\* Positions of the store the read saw that hold e at or after, and strictly
\* after, the cutoff of the read.
AtOrAfterCutoff(t, e) ==
    {i \in 1..Len(response[t].seen) :
        response[t].seen[i] = e /\ OccurredAt(e, response[t].at) >= cutoff[t]}
AfterCutoff(t, e) ==
    {i \in 1..Len(response[t].seen) :
        response[t].seen[i] = e /\ OccurredAt(e, response[t].at) > cutoff[t]}

\* C5 as stated: the dashboard returns exactly the stored events with
\* occurred_at >= now - 24h, one exactly at the cutoff included.
C5_WindowInclusive ==
    \A t \in Dashboards :
        \A e \in Range(response[t].seen) \cup Range(response[t].events) :
            Count(response[t].events, e) = Cardinality(AtOrAfterCutoff(t, e))

\* C5 as amended: the dashboard returns exactly the stored events with
\* occurred_at strictly after now - 24h; one exactly at the cutoff is left out.
C5_WindowStrict ==
    \A t \in Dashboards :
        \A e \in Range(response[t].seen) \cup Range(response[t].events) :
            Count(response[t].events, e) = Cardinality(AfterCutoff(t, e))

\* A read that saw an event exactly at the cutoff, which it left out, and an
\* event inside the window, which it returned.
C5_Witness ==
    \E t \in Dashboards :
        /\ \E e \in Range(response[t].seen) :
               /\ OccurredAt(e, response[t].at) = cutoff[t]
               /\ e \notin Range(response[t].events)
        /\ response[t].events # <<>>

NewestFirst(s, clock) ==
    \A i, j \in 1..Len(s) : i < j => OccurredAt(s[i], clock) >= OccurredAt(s[j], clock)

\* C6: events_store is in non-increasing occurred_at order whenever the lock
\* is free, and so is the sequence the dashboard returns.
C6_NewestFirst ==
    /\ LockFree => NewestFirst(events_store, now)
    /\ \A t \in Dashboards : NewestFirst(response[t].events, response[t].at)

\* An event leaves the store in this step.
Removes == \E e \in Range(events_store) : Count(events_store', e) < Count(events_store, e)
\* The step is the truncation of an admission that went over capacity.
EvictionStep ==
    /\ store_lock # Free
    /\ store_lock' = Free
    /\ Len(events_store) > MAX_CAPACITY
    /\ Len(events_store') = MAX_CAPACITY
\* The step is clear_events.
ClearStep ==
    /\ events_store' = <<>>
    /\ \E t \in Threads : response[t].kind # "clear" /\ response'[t].kind = "clear"
\* The step is a read returning, or the clock advancing.
ReadStep ==
    \/ now' # now
    \/ \E t \in Threads : /\ response'[t] # response[t]
                          /\ response'[t].kind \in {"dashboard", "status"}

\* C7: the reads and the passing of time leave events_store unchanged, and a
\* stored event is removed only by capacity eviction or by clear, however
\* old it has become.
C7_Retention ==
    [][/\ ReadStep => events_store' = events_store
       /\ Removes => EvictionStep \/ ClearStep]_vars

\* A dashboard read has left out an event older than the window, and the
\* event is still in the store.
C7_Witness ==
    \E t \in Dashboards :
        \E e \in Range(events_store) :
            /\ e \in Range(response[t].seen)
            /\ OccurredAt(e, now) < now - Horizon
            /\ e \notin Range(response[t].events)

\* The poll cycles that worked through a batch and have returned.
Polled == {t \in Threads : pc[t] = "done" /\ response[t].kind = "poll" /\ idx[t] > 0}
\* The second of two poll cycles of one batch with nothing in between.
Repolled == {t \in Polled : prev # NoPrev /\ prev.batch = api_events[t]}

WellFormed(r) == r.id # NoId /\ r.has_type /\ r.created_at[1] = "iso"
\* The ids the store held when the cycle of thread t read them.
IdsAtStart(t) == existing_ids[t] \ {fresh_events[t][i].id : i \in 1..Len(fresh_events[t])}
Batch(t) == api_events[t]
WellFormedAt(t) == {i \in 1..Len(Batch(t)) : WellFormed(Batch(t)[i])}
\* Record i is new: its id is not in the store and not earlier in the batch.
IsNew(t, i) ==
    /\ Batch(t)[i].id \notin IdsAtStart(t)
    /\ \A j \in 1..(i - 1) : Batch(t)[j].id # Batch(t)[i].id
\* Record i is younger than 24 hours when the batch arrives.
IsRecent(t, i) == (Batch(t)[i].created_at[2] \div TicksPerSecond) * TicksPerSecond > cutoff[t]
\* Some records lack 'id', the rest are well-formed and new.
MissingIdsOnly(t) ==
    /\ \A i \in 1..Len(Batch(t)) :
           Batch(t)[i].id = NoId \/ (WellFormed(Batch(t)[i]) /\ IsNew(t, i))
    /\ \E i \in 1..Len(Batch(t)) : Batch(t)[i].id = NoId
\* The cycle admitted every well-formed record and counted just those.
AdmittedWellFormed(t) ==
    /\ response[t].code = 200
    /\ response[t].new_events = Cardinality(WellFormedAt(t))
    /\ \A i \in WellFormedAt(t) : DisplayEvent(Batch(t)[i]) \in Range(fresh_events[t])

C10_DefectsSkipped ==
    \A t \in Polled :
        /\ response[t].code = 200
        /\ \A i \in WellFormedAt(t) :
               (IsNew(t, i) /\ IsRecent(t, i))
                   => DisplayEvent(Batch(t)[i]) \in Range(fresh_events[t])

\* The webhook deliveries that have returned.
Delivered == {t \in Threads : response[t].kind = "webhook"}

\* C11: every webhook delivery whose body is a mapping succeeds, whatever
\* fields are absent and whatever shape 'action', 'sender' and 'repository'
\* have: it returns success, and the event it built, stamped with the time
\* of the delivery, has been admitted.
C11_WebhookAlwaysSucceeds ==
    \A t \in Delivered :
        /\ response[t].code = 200
        /\ webhook_event[t].source = "github_webhook"
        /\ cut[t].inserted = webhook_event[t]
        /\ webhook_event[t].created_at[1] = "iso"
        /\ webhook_event[t].created_at[2] <= cut[t].at

\* The poll cycles whose fetch failed and that have returned.
FetchFailed == {t \in Threads : /\ pc[t] = "done" /\ response[t].kind = "poll"
                                /\ response[t].code = 500 /\ idx[t] = 0}

\* C12: the step in which the fetch of a poll cycle fails reports one
\* failure and leaves events_store as it is; the cycle has made no admission
\* and makes none, so the store differs from the one the cycle found only by
\* what other requests did.
C12_FetchFailureAdmitsNothing ==
    [][\A t \in Threads :
           (pc[t] = "fetch" /\ pc'[t] = "done") =>
               /\ response'[t].kind = "poll" /\ response'[t].code = 500
               /\ response'[t].new_events = 0
               /\ events_store' = events_store
               /\ store_lock' = store_lock /\ store_lock # t
               /\ fresh_events'[t] = <<>> /\ cut'[t] = NoCut]_vars

\* A fetch has failed while the store held events of other requests.
C12_Witness == \E t \in FetchFailed : events_store # <<>>

\* The requests that have returned a count of the store.
Counted == {t \in Threads : response[t].kind \in {"poll", "status"}}

\* C13: no read of events_store sees the store between an insert and its
\* truncation: no count a poll cycle or status reports exceeds the capacity,
\* and the ids a poll cycle tests against are those of a store within the
\* capacity.
C13_NoTornRead ==
    /\ \A t \in Counted : response[t].total_events <= MAX_CAPACITY
    /\ \A t \in Threads :
           Cardinality(existing_ids[t]) <= MAX_CAPACITY + Len(fresh_events[t])

\* Positions of the store that hold webhook events, and polled events.
WebhookPositions == {i \in Positions : events_store[i].source = "github_webhook"}
PolledPositions == {i \in Positions : events_store[i].source = "github_api"}

\* C14: the ids made up for webhook events never collide: two webhook
\* events in the store at the same time have different ids, also when their
\* deliveries fall into one millisecond, and no webhook event has the id of
\* a polled event.
C14_WebhookIdsDistinct ==
    /\ \A i, j \in WebhookPositions : i # j => events_store[i].id # events_store[j].id
    /\ \A i \in WebhookPositions, j \in PolledPositions :
           events_store[i].id # events_store[j].id

\* The records of the batch that normalize: 'id' and 'type' are there and
\* 'created_at' parses or is null, which stands for the time of processing.
NormalizedAt(t) ==
    {i \in 1..Len(Batch(t)) :
        /\ Batch(t)[i].id # NoId
        /\ Batch(t)[i].has_type
        /\ Batch(t)[i].created_at[1] \in {"iso", "null"}}
\* Those of them whose id is not yet in the store when their turn comes.
AdmissibleAt(t) == {i \in NormalizedAt(t) : IsNew(t, i)}

\* C15: a poll cycle that succeeds has admitted every record that
\* normalizes and whose id was not in the store, whatever its age; new_events
\* is the number of these records and total_events the size of the store at
\* the end of the cycle.
C15_AdmitsWhateverAge ==
    \A t \in Polled :
        response[t].code = 200 =>
            /\ \A i \in AdmissibleAt(t) : DisplayEvent(Batch(t)[i]) \in Range(fresh_events[t])
            /\ response[t].new_events = Cardinality(AdmissibleAt(t))
            /\ response[t].total_events = Len(events_store)

\* C16: every stored event has one fixed occurred_at, set when the event was
\* normalized: the value a window read or an eviction sort computes for it
\* does not change as long as the event is stored, whatever the clock does.
C16_FixedOccurredAt ==
    [][\A e \in Range(events_store) \cap Range(events_store') :
           OccurredAt(e, now') = OccurredAt(e, now)]_vars

\* The poll cycles whose fetch is under way.
Fetching == {t \in Threads : pc[t] = "fetch"}

\* C17: no request holds store_lock while its fetch is under way, and the
\* fetch is over before the cycle takes the lock for the first time: a
\* fetching cycle has made no admission yet, and whoever holds the lock is
\* between an insert and its truncation.
C17_NoFetchUnderLock ==
    /\ \A t \in Fetching :
           store_lock # t /\ cut[t] = NoCut /\ fresh_events[t] = <<>>
    /\ \A t \in Threads : store_lock = t => pc[t] \in {"locked", "wh_locked"}

\* A fetch is under way while another request holds the lock.
C17_Witness == \E t \in Fetching : store_lock \notin {Free, t}

\* parse_github_time returns a time for the value: it is an ISO timestamp,
\* or it is null and the clock stands in.
Accepted(created_at) == created_at[1] \in {"iso", "null"}

\* C18: the read path never errors: every event in events_store, and every
\* event a dashboard read has filtered, carries a 'created_at' that
\* parse_github_time accepts, and every dashboard read has returned its
\* result, which may be empty.
C18_ReadNeverErrors ==
    /\ \A i \in Positions : Accepted(events_store[i].created_at)
    /\ \A t \in Dashboards :
           /\ response[t].code = 200
           /\ \A e \in Range(response[t].seen) : Accepted(e.created_at)

\* A dashboard read of a store that holds events has returned none of them.
C18_Witness ==
    \E t \in Dashboards :
        response[t].code = 200 /\ response[t].seen # <<>> /\ response[t].events = <<>>

\* The webhook deliveries that have returned success.
Accepted200 == {t \in Delivered : response[t].code = 200}
\* The event of the delivery is in the store its admission left.
KeptOwn(t) == webhook_event[t] \in Range(cut[t].after)
\* Positions of the store the delivery sorted whose key is strictly later
\* than the key of its own event.
LaterThanOwn(t) ==
    {i \in 1..Len(cut[t].before) :
        SortKey(cut[t].before[i], cut[t].at) > SortKey(webhook_event[t], cut[t].at)}

\* C19 as stated: when github_webhook has released store_lock on a
\* successful delivery, its event is in events_store: the capacity cut of
\* its own admission never removes it.
C19_WebhookKept == \A t \in Accepted200 : KeptOwn(t)

\* C19 as amended: its event is in the store the admission left exactly if
\* fewer than MAX_CAPACITY stored events sort strictly later than it.
C19_WebhookKeptUnlessNewer ==
    \A t \in Accepted200 : KeptOwn(t) <=> Cardinality(LaterThanOwn(t)) < MAX_CAPACITY

\* A delivery into a full store whose events are no newer than its own: the
\* event has stayed and another has gone.
C19_Witness ==
    \E t \in Accepted200 :
        /\ Len(cut[t].before) > MAX_CAPACITY
        /\ LaterThanOwn(t) = {}
        /\ KeptOwn(t)

\* The requests inside a handler, and those waiting to enter the lock.
Running == {t \in Threads : pc[t] \notin {"idle", "done"}}
Waiting ==
    {t \in Threads : pc[t] \in {"dash", "wh_built", "clear"} /\ store_lock \notin {Free, t}}

\* C20: under fair scheduling of finitely many concurrent requests, every
\* request inside a handler eventually returns a response and every holder
\* of store_lock eventually releases it: no request stays inside a handler
\* for ever, and the lock is free again and again.
C20_Progress ==
    /\ \A t \in Threads : []<>(t \notin Running)
    /\ []<>(store_lock = Free)

\* A request waits for the lock that another request holds.
C20_Witness == Waiting # {}

====
